---- MODULE Spec2Model ----
(***************************************************************************)
(* Model of essenstracker (src/app.py, src/models.py): a Flask application *)
(* that stores Users, Meals, Goals and DailyLimits in one SQLite database  *)
(* and uploaded images in a directory.                                     *)
(*                                                                         *)
(* Tables are sets of rows keyed by an integer primary key.  Form fields   *)
(* are strings, modelled as sequences of characters; float() is modelled   *)
(* by ParseFloat, which fails on text that is not a number.                *)
(***************************************************************************)
EXTENDS Integers, Sequences, FiniteSets, TLC

\* ------------------------------------------------------------------------
\* Bounds of the model
\* ------------------------------------------------------------------------
MaxUsers == 2
MaxMeals == 2
MaxGoals == 2
MaxDay == 1
MaxFiles == 2
MaxRows == 2
NumWorkers == 2

\* ------------------------------------------------------------------------
\* Program constants
\* ------------------------------------------------------------------------
WeekLen == 7

ALLOWED_EXTENSIONS == {"png", "jpg", "jpeg", "webp"}

MealNutrients ==
    {"calories", "protein", "carbs", "fat", "fiber", "sugar", "sodium",
     "saturated_fat", "cholesterol", "potassium",
     "vitamin_a", "vitamin_c", "calcium", "iron"}

ManualFields ==
    {"calories", "protein", "carbs", "fat", "fiber", "sugar", "sodium"}

DashboardFields ==
    {"calories", "protein", "carbs", "fat", "fiber", "sugar", "sodium"}

WeekFields == {"calories", "protein", "carbs", "fat"}

SharedFields == {"calories", "protein", "carbs", "fat", "fiber"}

LimitFields ==
    {"calories", "protein", "carbs", "fat", "fiber", "sugar", "sodium",
     "saturated_fat", "cholesterol", "potassium"}

LimitDefaults ==
    [calories |-> 2000, protein |-> 50, carbs |-> 300, fat |-> 65,
     fiber |-> 25, sugar |-> 50, sodium |-> 2300, saturated_fat |-> 20,
     cholesterol |-> 300, potassium |-> 3500]

\* ------------------------------------------------------------------------
\* Python helpers
\* ------------------------------------------------------------------------
Digits == {"0", "1", "2", "3", "4", "5", "6", "7", "8", "9"}

DigitValue(c) ==
    CASE c = "0" -> 0 [] c = "1" -> 1 [] c = "2" -> 2 [] c = "3" -> 3
      [] c = "4" -> 4 [] c = "5" -> 5 [] c = "6" -> 6 [] c = "7" -> 7
      [] c = "8" -> 8 [] c = "9" -> 9

RECURSIVE DigitsValue(_)
DigitsValue(s) ==
    IF s = <<>> THEN 0
    ELSE 10 * DigitsValue(SubSeq(s, 1, Len(s) - 1)) + DigitValue(s[Len(s)])

\* float(text): the number, or ValueError (ok = FALSE) when the text is not
\* a number.  The inputs of the model are digit strings and letter strings.
ParseFloat(s) ==
    IF Len(s) > 0 /\ \A i \in 1..Len(s) : s[i] \in Digits
    THEN [ok |-> TRUE, v |-> DigitsValue(s)]
    ELSE [ok |-> FALSE, v |-> 0]

\* float(request.form.get(f, dflt) or dflt): a missing field gives the default,
\* an empty string is falsy and gives the default, any other text goes to float().
FormFloat(form, f, dflt) ==
    IF f \notin DOMAIN form THEN [ok |-> TRUE, v |-> dflt]
    ELSE IF form[f] = <<>> THEN [ok |-> TRUE, v |-> dflt]
    ELSE ParseFloat(form[f])

Max(S) == CHOOSE x \in S : \A y \in S : y <= x

Min(S) == CHOOSE x \in S : \A y \in S : x <= y

\* INTEGER PRIMARY KEY of SQLite: one more than the largest key in the table.
NewId(rows) == IF rows = {} THEN 1 ELSE Max({r.id : r \in rows}) + 1

\* Query.get(id): the row with that primary key, as a set of at most one row.
GetById(rows, id) == {r \in rows : r.id = id}

\* ------------------------------------------------------------------------
\* State
\* ------------------------------------------------------------------------
VARIABLES
    users,      \* User rows
    limits,     \* DailyLimit rows
    meals,      \* Meal rows
    goals,      \* Goal rows
    files,      \* names of the files in UPLOAD_FOLDER
    today,      \* date.today() of the server
    resp,       \* the response of the request handled last
    procs,      \* the request each worker is in the middle of
    resolved    \* per user: what the last finished get_limits call returned,
                \* None before the first call and after a settings update

vars == <<users, limits, meals, goals, files, today, resp, procs, resolved>>

Workers == 1..NumWorkers

\* no record: None of Python
None == <<>>

\* a worker between two requests
\* prior: what the last finished get_limits call for the user had returned when
\* this worker's call started; overlap: a settings update of the user was
\* committed while this worker's call was running
\* meal: the Meal object delete_meal has loaded
IdleProc == [pc |-> "idle", op |-> "none", uid |-> 0, form |-> None, row |-> 0,
             prior |-> None, overlap |-> FALSE, meal |-> None]

NoResp == [op |-> "none", status |-> 0, user |-> 0]

Init ==
    /\ users = {}
    /\ limits = {}
    /\ meals = {}
    /\ goals = {}
    /\ files = {}
    /\ today = 0
    /\ resp = NoResp
    /\ procs = [p \in Workers |-> IdleProc]
    /\ resolved = [u \in 1..MaxUsers |-> None]

UserIds == {u.id : u \in users}

\* ------------------------------------------------------------------------
\* models.py
\* ------------------------------------------------------------------------
\* DailyLimit.query.filter_by(user_id=uid).first(): SQLite scans the table in
\* rowid order, so the first match is the one with the smallest id.
LimitsOf(lims, uid) == {l \in lims : l.user_id = uid}

\* the match with the largest id
FirstLimit_Newest(lims, uid) ==
    CHOOSE l \in LimitsOf(lims, uid) : l.id = Max({k.id : k \in LimitsOf(lims, uid)})

FirstLimit(lims, uid) ==
    CHOOSE l \in LimitsOf(lims, uid) : l.id = Min({k.id : k \in LimitsOf(lims, uid)})

\* DailyLimit(user_id=uid) added and committed: every column takes its default.
InsertLimit(lims, uid) ==
    lims \cup {[id |-> NewId(lims), user_id |-> uid, v |-> LimitDefaults]}

\* User.get_limits as one uninterrupted call: the table after the call.
GetLimitsTable(lims, uid) ==
    IF LimitsOf(lims, uid) # {} THEN lims ELSE InsertLimit(lims, uid)

\* User.get_limits: the record the call returns.
GetLimits(lims, uid) == FirstLimit(GetLimitsTable(lims, uid), uid)

\* ------------------------------------------------------------------------
\* register (app.py)
\* ------------------------------------------------------------------------
RegForms ==
    {[username |-> "ann", email |-> "a@x", password |-> "pw"],
     [username |-> "ann", email |-> "b@x", password |-> "pw"],
     [username |-> "bob", email |-> "a@x", password |-> "pw"],
     [username |-> "bob", email |-> "b@x", password |-> "pw"],
     [username |-> "bob", email |-> "c@x", password |-> ""]}

\* the values secrets.token_urlsafe(32) may return
Tokens == {"t1", "t2"}

\* `not username or not email or not password`
RegMissing(form) == form.username = "" \/ form.email = "" \/ form.password = ""

\* User.query.filter((User.username == username) | (User.email == email)).first()
RegTaken(us, form) ==
    \E u \in us : u.username = form.username \/ u.email = form.email

\* a User table without unique columns: every commit is accepted
UserUniqueOk_Unchecked(us, row) == TRUE

\* the unique=True columns of User: the commit of a row raises IntegrityError
\* when another row holds the same username, email or share_token.
UserUniqueOk(us, row) ==
    \A u \in us : /\ u.username # row.username
                  /\ u.email # row.email
                  /\ u.share_token # row.share_token

NewUser(us, form, tok) ==
    [id |-> NewId(us), username |-> form.username, email |-> form.email,
     share_token |-> tok]

\* POST /register handled without interruption.
Register(form, tok) ==
    /\ Cardinality(users) < MaxUsers
    /\ UNCHANGED <<meals, goals, files, today, procs, resolved>>
    /\ IF RegMissing(form) \/ RegTaken(users, form)
       THEN /\ UNCHANGED <<users, limits>>
            /\ resp' = [op |-> "register", status |-> 302, user |-> 0]
       ELSE LET row == NewUser(users, form, tok) IN
            IF UserUniqueOk(users, row)
            THEN /\ users' = users \cup {row}
                 /\ limits' = GetLimitsTable(limits, row.id)
                 /\ resp' = [op |-> "register", status |-> 302, user |-> row.id]
            ELSE /\ UNCHANGED <<users, limits>>
                 /\ resp' = [op |-> "register", status |-> 500, user |-> 0]

\* The server's date advances.
Tick ==
    /\ today < MaxDay
    /\ today' = today + 1
    /\ resp' = NoResp
    /\ UNCHANGED <<users, limits, meals, goals, files, procs, resolved>>

\* ------------------------------------------------------------------------
\* Meal ingestion (app.py)
\* ------------------------------------------------------------------------
NoImage == [present |-> FALSE, dot |-> FALSE, ext |-> ""]

Images ==
    {NoImage,
     [present |-> TRUE, dot |-> TRUE, ext |-> "PNG"],
     [present |-> TRUE, dot |-> TRUE, ext |-> "gif"],
     [present |-> TRUE, dot |-> FALSE, ext |-> ""]}

\* str.lower() on the extensions of the model
Lower(e) == CASE e = "PNG" -> "png" [] OTHER -> e

allowed_file(img) == img.dot /\ Lower(img.ext) \in ALLOWED_EXTENSIONS

\* uuid4().hex + secure_filename(...): a name that is in use nowhere, neither
\* for a stored file nor in a Meal row nor in a Meal object a running
\* request has loaded.
\* File names are positive integers, 0 is image_path = None.
FreshFile ==
    Min({n \in 1..(MaxFiles + MaxMeals + NumWorkers + 1) :
            /\ n \notin files
            /\ \A m \in meals : m.image_path # n
            /\ \A p \in Workers :
                  procs[p].op = "delete_meal" => procs[p].meal.image_path # n})

\* A value json.loads can return (t = "invalid": json.loads raises).
JNull == [t |-> "null", name |-> "", nutr |-> <<>>, n |-> 0]

JInvalid == [t |-> "invalid", name |-> "", nutr |-> <<>>, n |-> 0]

JObject(name, nutr) == [t |-> "object", name |-> name, nutr |-> nutr, n |-> 0]

JArray(len) == [t |-> "array", name |-> "", nutr |-> <<>>, n |-> len]

JNumber(n) == [t |-> "number", name |-> "", nutr |-> <<>>, n |-> n]

\* name of a JSON object: "<absent>" no key, "<null>" the key holds null
NameAbsent == "<absent>"

NameNull == "<null>"

\* What the classifier call does: it raises, or returns a text that is bare,
\* wrapped in a code fence ("block"), or starts with a fence and has no line
\* break ("open").
ClassifierOutcomes ==
    {[raises |-> TRUE, fence |-> "none", json |-> JNull],
     [raises |-> FALSE, fence |-> "none", json |-> JInvalid],
     [raises |-> FALSE, fence |-> "open", json |-> JObject("Pizza", [calories |-> 800])],
     [raises |-> FALSE, fence |-> "none", json |-> JNull],
     [raises |-> FALSE, fence |-> "none", json |-> JObject(NameAbsent, <<>>)],
     [raises |-> FALSE, fence |-> "block", json |-> JObject("Pizza", [calories |-> 800, protein |-> 30])],
     [raises |-> FALSE, fence |-> "none", json |-> JObject(NameAbsent, [calories |-> 120])],
     [raises |-> FALSE, fence |-> "none", json |-> JObject(NameNull, [calories |-> 120])],
     [raises |-> FALSE, fence |-> "none", json |-> JArray(0)],
     [raises |-> FALSE, fence |-> "none", json |-> JArray(2)],
     [raises |-> FALSE, fence |-> "block", json |-> JNumber(42)]}

\* analyze_meal_image: any exception (the call, the fence stripping,
\* json.loads) is caught and None returned; otherwise the parsed value.
analyze_meal_image(c) ==
    IF c.raises \/ c.fence = "open" \/ c.json.t = "invalid" THEN JNull ELSE c.json

\* bool(value) of Python
Truthy(j) ==
    CASE j.t = "object" -> (j.name # NameAbsent \/ DOMAIN j.nutr # {})
      [] j.t = "array" -> j.n > 0
      [] j.t = "number" -> j.n # 0
      [] OTHER -> FALSE

\* dict.get(f, 0) on the nutrients of the analysis
AnalysisGet(j, f) == IF f \in DOMAIN j.nutr THEN j.nutr[f] ELSE 0

\* request.form.get('name', 'Mahlzeit')
FormName(form) == IF "name" \in DOMAIN form THEN form.name ELSE "Mahlzeit"

MealForms ==
    {[name |-> "Apfel", calories |-> <<"9", "5">>, carbs |-> <<"2", "5">>],
     [name |-> "Brot", calories |-> <<>>, protein |-> <<"7">>, sodium |-> <<"0">>],
     [calories |-> <<"3">>, fiber |-> <<"a", "b", "c">>],
     [name |-> "", protein |-> <<"4">>]}

\* every manual nutrient field of the form goes through float()
ManualOk(form) == \A f \in ManualFields : FormFloat(form, f, 0).ok

\* Meal(...) of the manual branch; the other columns take their default 0
ManualMeal(ms, uid, form, fname, day) ==
    [id |-> NewId(ms), user_id |-> uid, name |-> FormName(form),
     image_path |-> fname, date |-> day,
     nutr |-> [f \in MealNutrients |->
                 IF f \in ManualFields THEN FormFloat(form, f, 0).v ELSE 0]]

\* Meal(...) of the analysis branch
AnalysisMeal(ms, uid, j, fname, day) ==
    [id |-> NewId(ms), user_id |-> uid,
     name |-> IF j.name = NameAbsent THEN "Unbekannte Mahlzeit" ELSE j.name,
     image_path |-> fname, date |-> day,
     nutr |-> [f \in MealNutrients |-> AnalysisGet(j, f)]]

\* POST /meal/add by the logged-in user uid.  status 500: an exception left
\* the handler before the commit (the uploaded file stays).
AddMeal(uid, form, img, c, acceptJson) ==
    /\ uid \in UserIds
    /\ Cardinality(meals) < MaxMeals
    /\ LET saved == img.present /\ allowed_file(img)
           fname == IF saved THEN FreshFile ELSE 0
           analysis == IF saved THEN analyze_meal_image(c) ELSE JNull
           okStatus == IF acceptJson THEN 200 ELSE 302
           base == [op |-> "add_meal", user |-> uid, form |-> form, img |-> img,
                    outcome |-> c]
           fail == base @@ [status |-> 500, id |-> 0]
       IN  /\ saved => Cardinality(files) < MaxFiles
           /\ files' = IF saved THEN files \cup {fname} ELSE files
           /\ IF Truthy(analysis)
              THEN IF analysis.t # "object" \/ analysis.name = NameNull
                   THEN /\ UNCHANGED meals
                        /\ resp' = fail
                   ELSE LET row == AnalysisMeal(meals, uid, analysis, fname, today) IN
                        /\ meals' = meals \cup {row}
                        /\ resp' = base @@ [status |-> okStatus, id |-> row.id]
              ELSE IF ~ManualOk(form)
                   THEN /\ UNCHANGED meals
                        /\ resp' = fail
                   ELSE LET row == ManualMeal(meals, uid, form, fname, today) IN
                        /\ meals' = meals \cup {row}
                        /\ resp' = base @@ [status |-> okStatus, id |-> row.id]
    /\ UNCHANGED <<users, limits, goals, today, procs, resolved>>

\* POST /meal/<meal_id>/delete by the logged-in user uid.
DeleteMeal(uid, meal_id) ==
    /\ uid \in UserIds
    /\ LET found == GetById(meals, meal_id) IN
       IF found = {}
       THEN /\ resp' = [op |-> "delete_meal", status |-> 404, user |-> uid, id |-> meal_id]
            /\ UNCHANGED <<meals, files>>
       ELSE LET meal == CHOOSE m \in found : TRUE IN
            IF meal.user_id # uid
            THEN /\ resp' = [op |-> "delete_meal", status |-> 403, user |-> uid, id |-> meal_id]
                 /\ UNCHANGED <<meals, files>>
            ELSE /\ files' = IF meal.image_path # 0 /\ meal.image_path \in files
                             THEN files \ {meal.image_path} ELSE files
                 /\ meals' = meals \ {meal}
                 /\ resp' = [op |-> "delete_meal", status |-> 302, user |-> uid, id |-> meal_id]
    /\ UNCHANGED <<users, limits, goals, today, procs, resolved>>

\* ------------------------------------------------------------------------
\* Aggregation: dashboard and shared profile (app.py)
\* ------------------------------------------------------------------------
\* the query without its user_id filter
MealsOn_AnyUser(ms, uid, d) == {m \in ms : m.date = d}

\* Meal.query.filter_by(user_id=uid, date=d).all()
MealsOn(ms, uid, d) == {m \in ms : m.user_id = uid /\ m.date = d}

\* sum(m.<f> for m in rows)
RECURSIVE SumField(_, _)
SumField(rows, f) ==
    IF rows = {} THEN 0
    ELSE LET m == CHOOSE x \in rows : TRUE
         IN  m.nutr[f] + SumField(rows \ {m}, f)

\* Goal.query.filter_by(user_id=uid, completed=False).all()
OpenGoals(gs, uid) == {g \in gs : g.user_id = uid /\ ~g.completed}

\* totals of dashboard()
DashboardTotals(ms, uid, day) ==
    [f \in DashboardFields |-> SumField(MealsOn(ms, uid, day), f)]

\* week_data of dashboard(): i runs 6, 5, .., 0, d = today - i, oldest first
DashboardWeek(ms, uid, day) ==
    [k \in 1..WeekLen |->
        LET d == day - (WeekLen - k)
        IN  [date |-> d,
             v |-> [f \in WeekFields |-> SumField(MealsOn(ms, uid, d), f)]]]

\* GET / by the logged-in user uid.
Dashboard(uid) ==
    /\ uid \in UserIds
    /\ limits' = GetLimitsTable(limits, uid)
    /\ resp' = [op |-> "dashboard", status |-> 200, user |-> uid,
                totals |-> DashboardTotals(meals, uid, today),
                week |-> DashboardWeek(meals, uid, today),
                limits |-> GetLimits(limits, uid).v,
                goals |-> {g.id : g \in OpenGoals(goals, uid)}]
    /\ UNCHANGED <<users, meals, goals, files, today, procs, resolved>>

\* User.query.filter_by(share_token=token)
UsersWithToken(us, token) == {u \in us : u.share_token = token}

\* the totals over every day of the user, not only today
SharedTotals_AllDays(ms, uid, day) ==
    [f \in SharedFields |-> SumField({m \in ms : m.user_id = uid}, f)]

\* totals of shared_profile()
SharedTotals(ms, uid, day) ==
    [f \in SharedFields |-> SumField(MealsOn(ms, uid, day), f)]

\* week_data of shared_profile(): calories only
SharedWeek(ms, uid, day) ==
    [k \in 1..WeekLen |->
        LET d == day - (WeekLen - k)
        IN  [date |-> d, calories |-> SumField(MealsOn(ms, uid, d), "calories")]]

\* GET /shared/<token>, without login.
SharedProfile(token) ==
    /\ LET found == UsersWithToken(users, token) IN
       IF found = {}
       THEN /\ resp' = [op |-> "shared", status |-> 404, user |-> 0, token |-> token]
            /\ UNCHANGED limits
       ELSE LET user == CHOOSE u \in found : u.id = Min({w.id : w \in found}) IN
            /\ limits' = GetLimitsTable(limits, user.id)
            /\ resp' = [op |-> "shared", status |-> 200, user |-> user.id,
                        token |-> token,
                        totals |-> SharedTotals(meals, user.id, today),
                        week |-> SharedWeek(meals, user.id, today),
                        limits |-> GetLimits(limits, user.id).v,
                        goals |-> {g.id : g \in OpenGoals(goals, user.id)}]
    /\ UNCHANGED <<users, meals, goals, files, today, procs, resolved>>

\* ------------------------------------------------------------------------
\* Goals (app.py)
\* ------------------------------------------------------------------------
GoalForms ==
    {[title |-> "Laufen", target_value |-> <<"5">>],
     [title |-> "Wasser", target_value |-> <<>>,
      end_date |-> <<"2", "0", "2", "6", "-", "1", "2", "-", "3", "1">>],
     [title |-> "Gewicht", target_value |-> <<"v", "i", "e", "l">>],
     [title |-> "Schlaf", end_date |-> <<"b", "a", "l", "d">>]}

\* request.form.get('end_date') is truthy
HasEndDate(form) == "end_date" \in DOMAIN form /\ form.end_date # <<>>

\* datetime.strptime(text, '%Y-%m-%d') accepts the text (the dates of the
\* model are written with four, two and two digits)
DateOk(s) ==
    /\ Len(s) = 10
    /\ \A i \in 1..10 : IF i \in {5, 8} THEN s[i] = "-" ELSE s[i] \in Digits

\* POST /goals/add by the logged-in user uid.
AddGoal(uid, form) ==
    /\ uid \in UserIds
    /\ Cardinality(goals) < MaxGoals
    /\ LET target == FormFloat(form, "target_value", 0)
           base == [op |-> "add_goal", user |-> uid, form |-> form]
       IN  IF ~target.ok \/ (HasEndDate(form) /\ ~DateOk(form.end_date))
           THEN /\ UNCHANGED goals
                /\ resp' = base @@ [status |-> 500, id |-> 0]
           ELSE LET row == [id |-> NewId(goals), user_id |-> uid,
                            title |-> IF "title" \in DOMAIN form THEN form.title ELSE "",
                            target_value |-> target.v,
                            end_date |-> IF HasEndDate(form) THEN form.end_date ELSE <<>>,
                            completed |-> FALSE]
                IN  /\ goals' = goals \cup {row}
                    /\ resp' = base @@ [status |-> 302, id |-> row.id]
    /\ UNCHANGED <<users, limits, meals, files, today, procs, resolved>>

\* complete_goal without the comparison of goal.user_id with the caller
CompleteGoal_NoOwnerCheck(uid, goal_id) ==
    /\ uid \in UserIds
    /\ LET found == GetById(goals, goal_id)
           base == [op |-> "complete_goal", user |-> uid, id |-> goal_id]
       IN  IF found = {}
           THEN /\ resp' = base @@ [status |-> 404, before |-> FALSE]
                /\ UNCHANGED goals
           ELSE LET goal == CHOOSE g \in found : TRUE IN
                /\ goals' = (goals \ {goal}) \cup {[goal EXCEPT !.completed = TRUE]}
                /\ resp' = base @@ [status |-> 302, before |-> goal.completed]
    /\ UNCHANGED <<users, limits, meals, files, today, procs, resolved>>

\* complete_goal that flips the flag instead of setting it
CompleteGoal_Toggle(uid, goal_id) ==
    /\ uid \in UserIds
    /\ LET found == GetById(goals, goal_id)
           base == [op |-> "complete_goal", user |-> uid, id |-> goal_id]
       IN  IF found = {}
           THEN /\ resp' = base @@ [status |-> 404, before |-> FALSE]
                /\ UNCHANGED goals
           ELSE LET goal == CHOOSE g \in found : TRUE IN
                IF goal.user_id # uid
                THEN /\ resp' = base @@ [status |-> 403, before |-> goal.completed]
                     /\ UNCHANGED goals
                ELSE /\ goals' = (goals \ {goal})
                                    \cup {[goal EXCEPT !.completed = ~goal.completed]}
                     /\ resp' = base @@ [status |-> 302, before |-> goal.completed]
    /\ UNCHANGED <<users, limits, meals, files, today, procs, resolved>>

\* POST /goals/<goal_id>/complete by the logged-in user uid.
CompleteGoal(uid, goal_id) ==
    /\ uid \in UserIds
    /\ LET found == GetById(goals, goal_id)
           base == [op |-> "complete_goal", user |-> uid, id |-> goal_id]
       IN  IF found = {}
           THEN /\ resp' = base @@ [status |-> 404, before |-> FALSE]
                /\ UNCHANGED goals
           ELSE LET goal == CHOOSE g \in found : TRUE IN
                IF goal.user_id # uid
                THEN /\ resp' = base @@ [status |-> 403, before |-> goal.completed]
                     /\ UNCHANGED goals
                ELSE /\ goals' = (goals \ {goal}) \cup {[goal EXCEPT !.completed = TRUE]}
                     /\ resp' = base @@ [status |-> 302, before |-> goal.completed]
    /\ UNCHANGED <<users, limits, meals, files, today, procs, resolved>>

\* POST /goals/<goal_id>/delete by the logged-in user uid.
DeleteGoal(uid, goal_id) ==
    /\ uid \in UserIds
    /\ LET found == GetById(goals, goal_id)
           base == [op |-> "delete_goal", user |-> uid, id |-> goal_id]
       IN  IF found = {}
           THEN /\ resp' = base @@ [status |-> 404, before |-> FALSE]
                /\ UNCHANGED goals
           ELSE LET goal == CHOOSE g \in found : TRUE IN
                IF goal.user_id # uid
                THEN /\ resp' = base @@ [status |-> 403, before |-> goal.completed]
                     /\ UNCHANGED goals
                ELSE /\ goals' = goals \ {goal}
                     /\ resp' = base @@ [status |-> 302, before |-> goal.completed]
    /\ UNCHANGED <<users, limits, meals, files, today, procs, resolved>>

\* ------------------------------------------------------------------------
\* Daily limits (app.py)
\* ------------------------------------------------------------------------
SettingsForms ==
    {[calories |-> <<"1", "8", "0", "0">>],
     [calories |-> <<"1", "8", "0", "0">>, protein |-> <<>>, carbs |-> <<>>,
      fat |-> <<>>, fiber |-> <<>>, sugar |-> <<>>, sodium |-> <<>>,
      saturated_fat |-> <<>>, cholesterol |-> <<>>, potassium |-> <<>>],
     [calories |-> <<"0">>, protein |-> <<"6", "0">>, carbs |-> <<"2", "5">>,
      fat |-> <<"7">>, fiber |-> <<"3", "0">>, sugar |-> <<"5">>,
      sodium |-> <<"9", "5">>, saturated_fat |-> <<"4">>,
      cholesterol |-> <<"6", "0">>, potassium |-> <<"7">>],
     [fiber |-> <<>>, sugar |-> <<"3", "0">>, potassium |-> <<"0">>],
     [calories |-> <<"1", "8", "0", "0">>, sodium |-> <<"v", "i", "e", "l">>]}

\* every limit field of the form goes through float()
SettingsOk(form) == \A f \in LimitFields : FormFloat(form, f, LimitDefaults[f]).ok

\* assignments that keep the stored value of a field that is missing or empty
LimitsFromForm_KeepStored(form, old) ==
    [f \in LimitFields |->
        IF f \notin DOMAIN form \/ form[f] = <<>> THEN old[f]
        ELSE FormFloat(form, f, LimitDefaults[f]).v]

\* the ten assignments of settings(): the stored values play no part
LimitsFromForm(form, old) ==
    [f \in LimitFields |-> FormFloat(form, f, LimitDefaults[f]).v]

\* GET /settings by the logged-in user uid.
SettingsGet(uid) ==
    /\ uid \in UserIds
    /\ limits' = GetLimitsTable(limits, uid)
    /\ resp' = [op |-> "settings_get", status |-> 200, user |-> uid,
                limits |-> GetLimits(limits, uid).v]
    /\ UNCHANGED <<users, meals, goals, files, today, procs, resolved>>

\* POST /settings by the logged-in user uid.  A ValueError leaves the handler
\* before the commit: what get_limits committed stays, the assignments are lost.
SettingsPost(uid, form) ==
    /\ uid \in UserIds
    /\ LET table == GetLimitsTable(limits, uid)
           row == GetLimits(limits, uid)
           base == [op |-> "settings_post", user |-> uid, form |-> form,
                    before |-> row.v]
       IN  IF ~SettingsOk(form)
           THEN /\ limits' = table
                /\ resp' = base @@ [status |-> 500]
           ELSE /\ limits' = (table \ {row})
                                \cup {[row EXCEPT !.v = LimitsFromForm(form, row.v)]}
                /\ resp' = base @@ [status |-> 302]
    /\ UNCHANGED <<users, meals, goals, files, today, procs, resolved>>

\* ------------------------------------------------------------------------
\* Requests, each handled without interruption, with their inputs drawn
\* from the given sets
\* ------------------------------------------------------------------------
NoOutcome == [raises |-> TRUE, fence |-> "none", json |-> JNull]

RegisterAny(forms, toks) == \E form \in forms, tok \in toks : Register(form, tok)

AddMealAny(forms, imgs, outcomes, accepts) ==
    \E uid \in UserIds, form \in forms, img \in imgs, acceptJson \in accepts :
        IF img.present /\ allowed_file(img)
        THEN \E c \in outcomes : AddMeal(uid, form, img, c, acceptJson)
        ELSE AddMeal(uid, form, img, NoOutcome, acceptJson)

DeleteMealAny == \E uid \in UserIds, meal_id \in 1..(MaxMeals + 1) : DeleteMeal(uid, meal_id)

DashboardAny == \E uid \in UserIds : Dashboard(uid)

\* a token of the model's generator, or a text that is no user's token
RequestTokens == Tokens \cup {"guess"}

SharedProfileAny == \E token \in RequestTokens : SharedProfile(token)

AddGoalAny(forms) == \E uid \in UserIds, form \in forms : AddGoal(uid, form)

CompleteGoalAny == \E uid \in UserIds, goal_id \in 1..(MaxGoals + 1) : CompleteGoal(uid, goal_id)

DeleteGoalAny == \E uid \in UserIds, goal_id \in 1..(MaxGoals + 1) : DeleteGoal(uid, goal_id)

SettingsGetAny == \E uid \in UserIds : SettingsGet(uid)

SettingsPostAny(forms) == \E uid \in UserIds, form \in forms : SettingsPost(uid, form)

\* two people who register with different names and addresses
TwoRegForms == {f \in RegForms : f.password # "" /\ (f.username = "ann" <=> f.email = "a@x")}

\* forms whose numeric fields are numbers, empty or missing
GoodMealForms == {f \in MealForms : ManualOk(f)}

\* The meal views: manual meals of several users over several days.
NextMeal ==
    \/ RegisterAny(TwoRegForms, Tokens)
    \/ Tick
    \/ AddMealAny(GoodMealForms, {NoImage}, {NoOutcome}, {FALSE})
    \/ DeleteMealAny
    \/ DashboardAny
    \/ SharedProfileAny

SpecMeal == Init /\ [][NextMeal]_vars

\* The settings page of several users.
NextSettings ==
    \/ RegisterAny(TwoRegForms, Tokens)
    \/ SettingsGetAny
    \/ SettingsPostAny(SettingsForms)

SpecSettings == Init /\ [][NextSettings]_vars

\* forms whose numeric and date fields are well-formed
GoodGoalForms ==
    {f \in GoalForms : FormFloat(f, "target_value", 0).ok
                       /\ (HasEndDate(f) => DateOk(f.end_date))}

\* an uploaded picture with an allowed extension
Picture == [present |-> TRUE, dot |-> TRUE, ext |-> "PNG"]

\* The goals of several users.
NextGoal ==
    \/ RegisterAny(TwoRegForms, Tokens)
    \/ AddGoalAny(GoodGoalForms)
    \/ CompleteGoalAny
    \/ DeleteGoalAny

SpecGoal == Init /\ [][NextGoal]_vars

\* Meals with and without picture and goals of several users, at most
\* MaxRows rows in all, and the requests that change or remove them.
NextOwner ==
    \/ RegisterAny(TwoRegForms, Tokens)
    \/ /\ Cardinality(meals) + Cardinality(goals) < MaxRows
       /\ AddMealAny({f \in MealForms : FormName(f) = "Apfel"}, {NoImage, Picture},
                     {NoOutcome}, {FALSE})
    \/ DeleteMealAny
    \/ /\ Cardinality(meals) + Cardinality(goals) < MaxRows
       /\ AddGoalAny({f \in GoodGoalForms : HasEndDate(f)})
    \/ CompleteGoalAny
    \/ DeleteGoalAny

SpecOwner == Init /\ [][NextOwner]_vars

\* one person registers
OneRegForm == {f \in RegForms : f.username = "ann" /\ f.email = "a@x"}

\* Meal ingestion of one user: every form, upload and classifier outcome.
NextIngest ==
    \/ RegisterAny(OneRegForm, Tokens)
    \/ AddMealAny(MealForms, Images, ClassifierOutcomes, BOOLEAN)
    \/ DeleteMealAny

SpecIngest == Init /\ [][NextIngest]_vars

\* The three handlers that read numbers from a form, for one user, at most
\* MaxRows meals and goals in all.
NextForms ==
    \/ RegisterAny(OneRegForm, Tokens)
    \/ /\ Cardinality(meals) + Cardinality(goals) < MaxRows
       /\ AddMealAny(MealForms, {NoImage}, {NoOutcome}, {FALSE})
    \/ /\ Cardinality(meals) + Cardinality(goals) < MaxRows
       /\ AddGoalAny(GoalForms)
    \/ SettingsPostAny(SettingsForms)

SpecForms == Init /\ [][NextForms]_vars

\* ------------------------------------------------------------------------
\* Concurrent requests.  Each worker handles one request at a time; a request
\* is a sequence of database steps and the steps of different workers
\* interleave.  A SELECT is one step, an INSERT or UPDATE with its commit is
\* one step.
\* ------------------------------------------------------------------------
Tables == <<meals, goals, files, today>>

\* register(): the validation and the existence query
RegCheck(p, form) ==
    /\ procs[p].pc = "idle"
    /\ Cardinality(users) < MaxUsers
    /\ IF RegMissing(form) \/ RegTaken(users, form)
       THEN /\ resp' = [op |-> "register", status |-> 302, user |-> 0, form |-> form,
                        tok |-> ""]
            /\ UNCHANGED procs
       ELSE /\ resp' = NoResp
            /\ procs' = [procs EXCEPT ![p] =
                            [IdleProc EXCEPT !.pc = "reg_insert", !.op = "register",
                                             !.form = form]]
    /\ UNCHANGED <<users, limits, resolved, Tables>>

\* register(): db.session.add(user); db.session.commit().  The call of
\* get_limits starts after it.
RegInsert(p, tok) ==
    /\ procs[p].pc = "reg_insert"
    /\ Cardinality(users) < MaxUsers
    /\ LET row == NewUser(users, procs[p].form, tok) IN
       IF UserUniqueOk(users, row)
       THEN /\ users' = users \cup {row}
            /\ resp' = NoResp
            /\ procs' = [procs EXCEPT ![p].pc = "gl_find", ![p].uid = row.id,
                                      ![p].prior = resolved[row.id]]
       ELSE /\ UNCHANGED users
            /\ resp' = [op |-> "register", status |-> 500, user |-> 0,
                        form |-> procs[p].form, tok |-> tok]
            /\ procs' = [procs EXCEPT ![p] = IdleProc]
    /\ UNCHANGED <<limits, resolved, Tables>>

\* A request of a logged-in user that calls get_limits and writes nothing
\* else: dashboard, weekly_plan, settings (GET), api_suggestions; and
\* shared_profile for the user's token.  The call starts.
StartView(p, uid) ==
    /\ procs[p].pc = "idle"
    /\ uid \in UserIds
    /\ procs' = [procs EXCEPT ![p] =
                    [IdleProc EXCEPT !.pc = "gl_find", !.op = "view", !.uid = uid,
                                     !.prior = resolved[uid]]]
    /\ resp' = NoResp
    /\ UNCHANGED <<users, limits, resolved, Tables>>

\* POST /settings of a logged-in user: the call of get_limits starts.
StartSettingsPost(p, uid, form) ==
    /\ procs[p].pc = "idle"
    /\ uid \in UserIds
    /\ procs' = [procs EXCEPT ![p] =
                    [IdleProc EXCEPT !.pc = "gl_find", !.op = "settings_post",
                                     !.uid = uid, !.form = form,
                                     !.prior = resolved[uid]]]
    /\ resp' = NoResp
    /\ UNCHANGED <<users, limits, resolved, Tables>>

\* where the request goes on when get_limits has returned row
AfterGetLimits(p, row) ==
    IF procs[p].op = "settings_post"
    THEN [procs EXCEPT ![p].pc = "assign", ![p].row = row.id]
    ELSE [procs EXCEPT ![p] = IdleProc]

\* get_limits: DailyLimit.query.filter_by(user_id=self.id).first()
GetLimitsFind(p) ==
    /\ procs[p].pc = "gl_find"
    /\ LET uid == procs[p].uid IN
       IF LimitsOf(limits, uid) # {}
       THEN LET row == FirstLimit(limits, uid) IN
            /\ procs' = AfterGetLimits(p, row)
            /\ resolved' = IF procs[p].overlap THEN resolved
                            ELSE [resolved EXCEPT ![uid] = row.v]
            /\ resp' = [op |-> "get_limits", status |-> 200, user |-> uid,
                        prior |-> procs[p].prior, ret |-> row.v, wrote |-> FALSE]
       ELSE /\ procs' = [procs EXCEPT ![p].pc = "gl_insert"]
            /\ resp' = NoResp
            /\ UNCHANGED resolved
    /\ UNCHANGED <<users, limits, Tables>>

\* get_limits: db.session.add(DailyLimit(user_id=self.id)); db.session.commit()
GetLimitsInsert(p) ==
    /\ procs[p].pc = "gl_insert"
    /\ LET uid == procs[p].uid
           row == [id |-> NewId(limits), user_id |-> uid, v |-> LimitDefaults]
       IN  /\ limits' = InsertLimit(limits, uid)
           /\ procs' = AfterGetLimits(p, row)
           /\ resolved' = IF procs[p].overlap THEN resolved
                           ELSE [resolved EXCEPT ![uid] = row.v]
           /\ resp' = [op |-> "get_limits", status |-> 200, user |-> uid,
                       prior |-> procs[p].prior, ret |-> row.v, wrote |-> TRUE]
    /\ UNCHANGED <<users, Tables>>

\* settings(): the ten assignments to the record get_limits returned, and the
\* commit.  It is an update between calls of get_limits for this user.
SettingsCommit(p) ==
    /\ procs[p].pc = "assign"
    /\ LET uid == procs[p].uid
           form == procs[p].form
           row == CHOOSE l \in limits : l.id = procs[p].row
       IN  IF ~SettingsOk(form)
           THEN /\ resp' = [op |-> "settings_post", user |-> uid, form |-> form,
                            before |-> row.v, status |-> 500]
                /\ procs' = [procs EXCEPT ![p] = IdleProc]
                /\ UNCHANGED <<limits, resolved>>
           ELSE /\ limits' = (limits \ {row})
                                \cup {[row EXCEPT !.v = LimitsFromForm(form, row.v)]}
                /\ resp' = [op |-> "settings_post", user |-> uid, form |-> form,
                            before |-> row.v, status |-> 302]
                /\ resolved' = [resolved EXCEPT ![uid] = None]
                /\ procs' = [q \in Workers |->
                                IF q = p THEN IdleProc
                                ELSE IF procs[q].uid = uid
                                          /\ procs[q].pc \in {"gl_find", "gl_insert"}
                                     THEN [procs[q] EXCEPT !.prior = None,
                                                           !.overlap = TRUE]
                                     ELSE procs[q]]
    /\ UNCHANGED <<users, Tables>>

RegCheckAny(forms) == \E p \in Workers, form \in forms : RegCheck(p, form)

RegInsertAny(toks) == \E p \in Workers, tok \in toks : RegInsert(p, tok)

StartViewAny == \E p \in Workers, uid \in UserIds : StartView(p, uid)

StartSettingsPostAny(forms) ==
    \E p \in Workers, uid \in UserIds, form \in forms : StartSettingsPost(p, uid, form)

GetLimitsFindAny == \E p \in Workers : GetLimitsFind(p)

GetLimitsInsertAny == \E p \in Workers : GetLimitsInsert(p)

SettingsCommitAny == \E p \in Workers : SettingsCommit(p)

\* Registrations of several workers at once.
NextRegister ==
    \/ RegCheckAny(RegForms)
    \/ RegInsertAny(Tokens)
    \/ GetLimitsFindAny
    \/ GetLimitsInsertAny

SpecRegister == Init /\ [][NextRegister]_vars

\* the token of the one person who registers in SpecLimits
OneToken == {t \in Tokens : t = "t1"}

\* a settings form that sets the calorie limit and leaves the rest out
CalorieForms == {f \in SettingsForms : DOMAIN f = {"calories"}}

\* One person registers; the registration, views and settings updates of
\* that user run on several workers at once.
NextLimits ==
    \/ RegCheckAny(OneRegForm)
    \/ RegInsertAny(OneToken)
    \/ StartViewAny
    \/ StartSettingsPostAny(CalorieForms)
    \/ GetLimitsFindAny
    \/ GetLimitsInsertAny
    \/ SettingsCommitAny

SpecLimits == Init /\ [][NextLimits]_vars

\* delete_meal(): Meal.query.get_or_404(meal_id), the owner check and the
\* test of meal.image_path
DelLoad(p, uid, meal_id) ==
    /\ procs[p].pc = "idle"
    /\ uid \in UserIds
    /\ LET found == GetById(meals, meal_id) IN
       IF found = {}
       THEN /\ resp' = [op |-> "delete_meal", status |-> 404, user |-> uid,
                        id |-> meal_id, path |-> 0]
            /\ UNCHANGED procs
       ELSE LET meal == CHOOSE m \in found : TRUE IN
            IF meal.user_id # uid
            THEN /\ resp' = [op |-> "delete_meal", status |-> 403, user |-> uid,
                             id |-> meal_id, path |-> meal.image_path]
                 /\ UNCHANGED procs
            ELSE /\ resp' = NoResp
                 /\ procs' = [procs EXCEPT ![p] =
                                 [IdleProc EXCEPT
                                     !.pc = IF meal.image_path # 0 THEN "del_exists"
                                            ELSE "del_commit",
                                     !.op = "delete_meal", !.uid = uid,
                                     !.meal = meal]]
    /\ UNCHANGED <<users, limits, meals, goals, files, today, resolved>>

\* delete_meal(): os.path.exists(img_path)
DelExists(p) ==
    /\ procs[p].pc = "del_exists"
    /\ procs' = [procs EXCEPT ![p].pc =
                    IF procs[p].meal.image_path \in files THEN "del_remove"
                    ELSE "del_commit"]
    /\ resp' = NoResp
    /\ UNCHANGED <<users, limits, meals, goals, files, today, resolved>>

\* delete_meal(): os.remove(img_path).  It raises FileNotFoundError when the
\* file is gone; nothing catches it, the request ends with status 500 and
\* the session's delete is never issued.
DelRemove(p) ==
    /\ procs[p].pc = "del_remove"
    /\ LET meal == procs[p].meal IN
       IF meal.image_path \in files
       THEN /\ files' = files \ {meal.image_path}
            /\ procs' = [procs EXCEPT ![p].pc = "del_commit"]
            /\ resp' = NoResp
       ELSE /\ UNCHANGED files
            /\ procs' = [procs EXCEPT ![p] = IdleProc]
            /\ resp' = [op |-> "delete_meal", status |-> 500, user |-> procs[p].uid,
                        id |-> meal.id, path |-> meal.image_path]
    /\ UNCHANGED <<users, limits, meals, goals, today, resolved>>

\* delete_meal(): db.session.delete(meal); db.session.commit(); redirect.
\* The DELETE names the primary key; when it matches no row the mapper warns
\* and the commit goes through.
DelCommit(p) ==
    /\ procs[p].pc = "del_commit"
    /\ LET meal == procs[p].meal IN
       /\ meals' = {m \in meals : m.id # meal.id}
       /\ resp' = [op |-> "delete_meal", status |-> 302, user |-> procs[p].uid,
                   id |-> meal.id, path |-> meal.image_path]
    /\ procs' = [procs EXCEPT ![p] = IdleProc]
    /\ UNCHANGED <<users, limits, goals, files, today, resolved>>

DelLoadAny ==
    \E p \in Workers, uid \in UserIds, meal_id \in 1..(MaxMeals + 1) :
        DelLoad(p, uid, meal_id)

DelExistsAny == \E p \in Workers : DelExists(p)

DelRemoveAny == \E p \in Workers : DelRemove(p)

DelCommitAny == \E p \in Workers : DelCommit(p)

\* The meals with a picture of one user; the delete requests for them run
\* on several workers at once.
NextDelete ==
    \/ RegisterAny(OneRegForm, OneToken)
    \/ AddMealAny({f \in MealForms : FormName(f) = "Apfel"}, {Picture},
                  {NoOutcome}, {FALSE})
    \/ DelLoadAny
    \/ DelExistsAny
    \/ DelRemoveAny
    \/ DelCommitAny

SpecDelete == Init /\ [][NextDelete]_vars

\* shared_profile(): User.query.filter_by(share_token=token).first_or_404()
\* and the query of today's meals; for a user that was found the call of
\* get_limits starts.  What follows that call (the totals, the week, the
\* open goals, the template) reads and writes nothing.
StartShared(p, token) ==
    /\ procs[p].pc = "idle"
    /\ LET found == UsersWithToken(users, token) IN
       IF found = {}
       THEN /\ resp' = [op |-> "shared", status |-> 404, user |-> 0, token |-> token]
            /\ UNCHANGED procs
       ELSE LET user == CHOOSE u \in found : u.id = Min({w.id : w \in found}) IN
            /\ resp' = NoResp
            /\ procs' = [procs EXCEPT ![p] =
                            [IdleProc EXCEPT !.pc = "gl_find", !.op = "shared",
                                             !.uid = user.id,
                                             !.prior = resolved[user.id]]]
    /\ UNCHANGED <<users, limits, resolved, Tables>>

StartSharedAny == \E p \in Workers, token \in RequestTokens : StartShared(p, token)

\* Registrations on several workers, and GET /shared/<token> requests that
\* arrive while they run.
NextShared ==
    \/ RegCheckAny(TwoRegForms)
    \/ RegInsertAny(Tokens)
    \/ StartSharedAny
    \/ GetLimitsFindAny
    \/ GetLimitsInsertAny

SpecShared == Init /\ [][NextShared]_vars

\* ------------------------------------------------------------------------
\* C1
\* ------------------------------------------------------------------------
\* the nutrient f that the Meal row with primary key n adds to user uid's
\* total of day d: its value if the row is stored for uid on d, else nothing
StoredValue(n, uid, d, f) ==
    IF \E m \in meals : m.id = n /\ m.user_id = uid /\ m.date = d
    THEN (CHOOSE m \in meals : m.id = n).nutr[f]
    ELSE 0

RECURSIVE StoredUpTo(_, _, _, _)
StoredUpTo(n, uid, d, f) ==
    IF n = 0 THEN 0 ELSE StoredValue(n, uid, d, f) + StoredUpTo(n - 1, uid, d, f)

StoredTotal(uid, d, f) == StoredUpTo(NewId(meals) - 1, uid, d, f)

\* C1: the totals the dashboard returns for a user, for today and for each
\* day of its week chart, are nutrient by nutrient the sum over the Meal rows
\* stored for that user and day, and are zero when there is no such row.
C1_DashboardTotalsAreStoredSums ==
    resp.op = "dashboard" =>
        /\ \A f \in DashboardFields :
              /\ resp.totals[f] = StoredTotal(resp.user, today, f)
              /\ (\A m \in meals : m.user_id # resp.user \/ m.date # today)
                    => resp.totals[f] = 0
        /\ \A k \in 1..WeekLen : \A f \in WeekFields :
              /\ resp.week[k].v[f] = StoredTotal(resp.user, resp.week[k].date, f)
              /\ (\A m \in meals : m.user_id # resp.user \/ m.date # resp.week[k].date)
                    => resp.week[k].v[f] = 0
        /\ {resp.week[k].date : k \in 1..WeekLen} = (today - (WeekLen - 1))..today

\* a dashboard whose week chart shows a meal of an earlier day on which
\* another user has logged a meal too
C1_Witness ==
    /\ resp.op = "dashboard"
    /\ \E k \in 1..(WeekLen - 1) :
          /\ resp.week[k].v["calories"] > 0
          /\ \E m \in meals : /\ m.user_id # resp.user
                              /\ m.date = resp.week[k].date
                              /\ m.nutr["calories"] > 0

\* ------------------------------------------------------------------------
\* C8
\* ------------------------------------------------------------------------
\* C8: GET /shared/<token> answers not-found exactly when no user has the
\* token; otherwise it succeeds for the one user that has it, and its totals
\* (calories, protein, carbs, fat, fiber) are those of that user's dashboard
\* in the same state.
C8_SharedMatchesDashboard ==
    resp.op = "shared" =>
        /\ resp.status \in {200, 404}
        /\ resp.status = 404 <=> ~(\E u \in users : u.share_token = resp.token)
        /\ resp.status = 200 =>
              /\ \A u \in users : u.share_token = resp.token <=> u.id = resp.user
              /\ \A f \in SharedFields :
                    resp.totals[f] = DashboardTotals(meals, resp.user, today)[f]

\* a shared view of a user who has a meal today and one on another day
C8_Witness ==
    /\ resp.op = "shared"
    /\ resp.status = 200
    /\ resp.totals["calories"] > 0
    /\ \E m \in meals : m.user_id = resp.user /\ m.date # today /\ m.nutr["calories"] > 0

\* ------------------------------------------------------------------------
\* C4
\* ------------------------------------------------------------------------
\* the numbers the numerals of the settings forms stand for
NumberOf ==
    (<<"0">> :> 0) @@ (<<"4">> :> 4) @@ (<<"5">> :> 5) @@ (<<"7">> :> 7)
    @@ (<<"2", "5">> :> 25) @@ (<<"3", "0">> :> 30) @@ (<<"6", "0">> :> 60)
    @@ (<<"9", "5">> :> 95) @@ (<<"1", "8", "0", "0">> :> 1800)

Baseline(f) ==
    CASE f = "calories" -> 2000 [] f = "protein" -> 50 [] f = "carbs" -> 300
      [] f = "fat" -> 65 [] f = "fiber" -> 25 [] f = "sugar" -> 50
      [] f = "sodium" -> 2300 [] f = "saturated_fat" -> 20
      [] f = "cholesterol" -> 300 [] f = "potassium" -> 3500

\* the field is in the form and is not the empty string
Supplied(form, f) == f \in DOMAIN form /\ form[f] # <<>>

\* C4: a POST to /settings whose fields are numbers, empty or missing is
\* accepted, and after an accepted POST the user's DailyLimit holds, for each
\* of the 10 fields, the number supplied, or the baseline default where the
\* field is missing or empty, whatever it held before.
C4_SettingsReplaceWithDefault ==
    resp.op = "settings_post" =>
        /\ (\A f \in LimitFields : Supplied(resp.form, f) => resp.form[f] \in DOMAIN NumberOf)
              => resp.status = 302
        /\ resp.status = 302 =>
              /\ LimitsOf(limits, resp.user) # {}
              /\ \A f \in LimitFields :
                    FirstLimit(limits, resp.user).v[f] =
                        IF Supplied(resp.form, f) THEN NumberOf[resp.form[f]]
                        ELSE Baseline(f)

\* an accepted POST with an empty fiber field and a missing protein field,
\* sent when the stored fiber and protein limits were not the defaults
C4_Witness ==
    /\ resp.op = "settings_post"
    /\ resp.status = 302
    /\ "fiber" \in DOMAIN resp.form
    /\ resp.form["fiber"] = <<>>
    /\ "protein" \notin DOMAIN resp.form
    /\ Supplied(resp.form, "sugar")
    /\ resp.before["fiber"] = 30
    /\ resp.before["protein"] = 60
    /\ FirstLimit(limits, resp.user).v["fiber"] = 25

\* ------------------------------------------------------------------------
\* C5
\* ------------------------------------------------------------------------
\* the rows the request of resp' addressed, in the state before the request
Addressed(rows) == {r \in rows : r.id = resp'.id}

OwnedByCaller(rows) == \E r \in Addressed(rows) : r.user_id = resp'.user

C5_Step ==
    /\ resp'.op = "delete_meal" =>
          /\ Addressed(meals) = {} =>
                resp'.status = 404 /\ UNCHANGED <<meals, goals, files>>
          /\ (Addressed(meals) # {} /\ ~OwnedByCaller(meals)) =>
                resp'.status = 403 /\ UNCHANGED <<meals, goals, files>>
          /\ OwnedByCaller(meals) =>
                /\ resp'.status = 302
                /\ meals' = meals \ Addressed(meals)
                /\ files' = files \ {m.image_path : m \in Addressed(meals)}
                /\ goals' = goals
    /\ resp'.op = "complete_goal" =>
          /\ Addressed(goals) = {} =>
                resp'.status = 404 /\ UNCHANGED <<meals, goals, files>>
          /\ (Addressed(goals) # {} /\ ~OwnedByCaller(goals)) =>
                resp'.status = 403 /\ UNCHANGED <<meals, goals, files>>
          /\ OwnedByCaller(goals) =>
                /\ resp'.status = 302
                /\ \A g \in goals' : g.id = resp'.id => g.completed
                /\ {g.id : g \in goals'} = {g.id : g \in goals}
                /\ {g \in goals' : g.id # resp'.id} = {g \in goals : g.id # resp'.id}
                /\ UNCHANGED <<meals, files>>
    /\ resp'.op = "delete_goal" =>
          /\ Addressed(goals) = {} =>
                resp'.status = 404 /\ UNCHANGED <<meals, goals, files>>
          /\ (Addressed(goals) # {} /\ ~OwnedByCaller(goals)) =>
                resp'.status = 403 /\ UNCHANGED <<meals, goals, files>>
          /\ OwnedByCaller(goals) =>
                /\ resp'.status = 302
                /\ goals' = goals \ Addressed(goals)
                /\ UNCHANGED <<meals, files>>

\* C5: delete_meal, complete_goal and delete_goal answer 404 when no row has
\* the id and 403 when the row belongs to another user, and then change no
\* Meal, Goal or image file; on the caller's own row they succeed and take
\* effect.
C5_OwnershipOfMutations == [][C5_Step]_vars

\* another user's meal with a stored picture survived a delete request
C5_Witness ==
    /\ resp.op = "delete_meal"
    /\ resp.status = 403
    /\ \E m \in meals : /\ m.id = resp.id
                        /\ m.user_id # resp.user
                        /\ m.image_path \in files
    /\ goals # {}

\* ------------------------------------------------------------------------
\* C10
\* ------------------------------------------------------------------------
C10_Step ==
    \* created active
    /\ \A g \in goals' : (\A h \in goals : h.id # g.id) => ~g.completed
    \* completed only by complete_goal of the owner, and never reset
    /\ \A h \in goals, g \in goals' :
          h.id = g.id =>
             /\ h.completed => g.completed
             /\ (~h.completed /\ g.completed) =>
                   /\ resp'.op = "complete_goal"
                   /\ resp'.status = 302
                   /\ resp'.user = h.user_id
                   /\ resp'.id = h.id
    \* complete_goal on a completed goal of the caller: success, no change
    /\ (resp'.op = "complete_goal" /\ \E h \in Addressed(goals) :
                                         h.user_id = resp'.user /\ h.completed)
          => (resp'.status = 302 /\ goals' = goals)
    \* delete_goal of the caller's goal, completed or not
    /\ (resp'.op = "delete_goal" /\ OwnedByCaller(goals))
          => (resp'.status = 302 /\ goals' = goals \ Addressed(goals))

\* C10: a Goal is created with completed = false; completed becomes true only
\* through a complete_goal request of its owner and is never set back;
\* complete_goal on a completed goal succeeds and changes nothing; the owner
\* can delete a goal whether it is completed or not.
C10_GoalLifecycle == [][C10_Step]_vars

\* complete_goal was answered with success for a goal that was completed already
C10_Witness ==
    /\ resp.op = "complete_goal"
    /\ resp.status = 302
    /\ resp.before
    /\ \E g \in goals : g.id = resp.id /\ g.completed /\ g.user_id = resp.user

\* ------------------------------------------------------------------------
\* C6
\* ------------------------------------------------------------------------
\* the classifier call raised, or its text is not a JSON object
ClassifierFailed(c) == c.raises \/ c.fence = "open" \/ c.json.t # "object"

\* the field holds text that is not a number
NonNumeric(form, f) ==
    /\ f \in DOMAIN form
    /\ form[f] # <<>>
    /\ \E i \in 1..Len(form[f]) : form[f][i] \notin Digits

\* the number a manual field stands for, empty or missing as zero
ManualNumber(form, f) ==
    IF f \in DOMAIN form /\ form[f] # <<>> THEN DigitsValue(form[f]) ELSE 0

\* C6: when a POST to /meal/add carries an image with an allowed extension and
\* the classifier fails (the call raises, or its response is not the expected
\* record), the request does not fail and creates a Meal of the caller whose
\* name and nutrients are those of the manual form fields.
C6_FallbackOnClassifierFailure ==
    (/\ resp.op = "add_meal"
     /\ resp.img.present
     /\ allowed_file(resp.img)
     /\ ClassifierFailed(resp.outcome)
     /\ \A f \in ManualFields : ~NonNumeric(resp.form, f))
    => /\ resp.status # 500
       /\ \E m \in meals :
             /\ m.id = resp.id
             /\ m.user_id = resp.user
             /\ m.name = FormName(resp.form)
             /\ \A f \in ManualFields : m.nutr[f] = ManualNumber(resp.form, f)

\* ------------------------------------------------------------------------
\* C7
\* ------------------------------------------------------------------------
\* C7: no request is rejected because a numeric form field holds text that is
\* not a number: add_meal (manual fields) and add_goal (target_value) store
\* zero for it and create the record, the settings update stores the field's
\* baseline default.
C7_NonNumericIsCoerced ==
    /\ (/\ resp.op = "add_meal"
        /\ ~(resp.img.present /\ allowed_file(resp.img))
        /\ \E f \in ManualFields : NonNumeric(resp.form, f))
       => /\ resp.status # 500
          /\ \E m \in meals :
                /\ m.id = resp.id
                /\ \A f \in ManualFields : NonNumeric(resp.form, f) => m.nutr[f] = 0
    /\ (resp.op = "add_goal" /\ NonNumeric(resp.form, "target_value"))
       => /\ resp.status # 500
          /\ \E g \in goals : g.id = resp.id /\ g.target_value = 0
    /\ (resp.op = "settings_post" /\ \E f \in LimitFields : NonNumeric(resp.form, f))
       => /\ resp.status # 500
          /\ \A f \in LimitFields :
                NonNumeric(resp.form, f) => FirstLimit(limits, resp.user).v[f] = Baseline(f)

\* ------------------------------------------------------------------------
\* C2
\* ------------------------------------------------------------------------
\* C2: a get_limits call that starts after an earlier call for the same user
\* has returned, with no settings update of that user committed since the
\* earlier call started, returns a record with the same values in all 10
\* fields and writes no DailyLimit row.
C2_ResolveIdempotent ==
    (resp.op = "get_limits" /\ resp.prior # None) =>
        /\ \A f \in LimitFields : resp.ret[f] = resp.prior[f]
        /\ ~resp.wrote

\* a second call returned values that a settings update had stored earlier,
\* while the user has more than one DailyLimit row
C2_Witness ==
    /\ resp.op = "get_limits"
    /\ resp.prior # None
    /\ resp.ret["calories"] = 1800
    /\ Cardinality(LimitsOf(limits, resp.user)) > 1

\* ------------------------------------------------------------------------
\* C3
\* ------------------------------------------------------------------------
\* C3: at most one DailyLimit row exists per user in every reachable state,
\* also when several requests of the user call get_limits at once.
C3_AtMostOneLimitPerUser ==
    \A u \in UserIds : Cardinality(LimitsOf(limits, u)) <= 1

\* ------------------------------------------------------------------------
\* C9
\* ------------------------------------------------------------------------
UniqueUsers ==
    \A u, w \in users :
        u # w => /\ u.username # w.username
                 /\ u.email # w.email
                 /\ u.share_token # w.share_token

\* C9: no two User rows share a username, an email or a share_token, also
\* after registrations that run at once; a registration that would break
\* this is refused at the commit (only then is a commit refused) and creates
\* no User row, which would share the field with the row it collides with.
C9_UniqueUsers ==
    /\ UniqueUsers
    /\ (resp.op = "register" /\ resp.status = 500) =>
          /\ \E u \in users : \/ u.username = resp.form.username
                              \/ u.email = resp.form.email
                              \/ u.share_token = resp.tok

\* a registration passed the existence check and was refused at the commit,
\* because another registration with the same username was committed meanwhile
C9_Witness ==
    /\ resp.op = "register"
    /\ resp.status = 500
    /\ \E u \in users : /\ u.username = resp.form.username
                        /\ u.email # resp.form.email
                        /\ u.share_token # resp.tok

\* ------------------------------------------------------------------------
\* C11
\* ------------------------------------------------------------------------
\* C11: a delete_meal request of the meal's owner ends without error (the
\* redirect), and after it the Meal row is gone and the image file the row
\* named is not in the upload folder; also when the file disappears between
\* the existence check and the removal, as with two delete requests for the
\* same meal at once.
C11_DeleteIgnoresMissingFile ==
    (resp.op = "delete_meal" /\ resp.status \notin {403, 404})
        => /\ resp.status = 302
           /\ GetById(meals, resp.id) = {}
           /\ (resp.path # 0 => resp.path \notin files)

\* ------------------------------------------------------------------------
\* C12
\* ------------------------------------------------------------------------
\* worker p takes a step of a GET /shared/<token> request
SharedStep(p) ==
    \/ procs[p].op = "shared" /\ procs'[p].pc # procs[p].pc
    \/ procs[p].pc = "idle" /\ procs'[p].op = "shared"

\* C12: GET /shared/<token> is read-only: for any token, valid or not, and
\* in any state, also when the user's row is committed and the user's
\* DailyLimit is not yet created, no step of the request changes the User,
\* Meal, Goal or DailyLimit rows.
C12_SharedIsReadOnly ==
    [][((\E p \in Workers : SharedStep(p)) \/ resp'.op = "shared")
          => UNCHANGED <<users, meals, goals, limits>>]_vars

====
